---- MODULE Spec2Model ----
(***************************************************************************)
(* A model of the webhook relay: the field normalizers (pure functions    *)
(* over JSON payloads), the chunking of a batch, and the request handlers *)
(* of every revision of the server kept in the repository, as a state     *)
(* machine over requests, outbound calls and the remote platforms.        *)
(***************************************************************************)
EXTENDS Integers, Sequences, FiniteSets, TLC

VARIABLES
  env,        \* process.env: the configured shared secret, credentials, location id
  reqs,       \* the requests in flight or answered, one record per request slot
  hsContacts, \* the marketing platform's contact records of each portal, in creation order
  hsBatches,  \* the batch-upsert groups the marketing platform has applied, in order
  ghlCreated, \* the CRM's created contacts (the request that created each), in order
  nin,        \* normalizer study: the input (payload, default tags, location id, pattern)
  nout        \* normalizer study: the function applied and the contact it built

vars == <<env, reqs, hsContacts, hsBatches, ghlCreated, nin, nout>>

(***************************************************************************)
(* Bounds of the model.                                                    *)
(***************************************************************************)
MaxTokens == 3     \* comma-separated pieces in an enumerated tags string
MaxTagArr == 2     \* elements in an enumerated inbound tags array

(***************************************************************************)
(* JavaScript values.  A string is a sequence of characters; a character   *)
(* is " " (white space), "," or a word: a run of characters holding no     *)
(* comma and neither starting nor ending with white space.                 *)
(***************************************************************************)
Undef  == [t |-> "undef",  s |-> <<>>, a |-> <<>>]
Null   == [t |-> "null",   s |-> <<>>, a |-> <<>>]
Obj    == [t |-> "obj",    s |-> <<>>, a |-> <<>>]
Absent == [t |-> "absent", s |-> <<>>, a |-> <<>>]   \* the key is not in the object
Str(s) == [t |-> "str", s |-> s, a |-> <<>>]
Num(s) == [t |-> "num", s |-> s, a |-> <<>>]         \* s: the number's decimal form
Arr(a) == [t |-> "arr", s |-> <<>>, a |-> a]         \* a: a sequence of strings

\* Boolean(v), as `if (v)`, `!v`, `a || b` and filter(Boolean) apply it.
Truthy(v) ==
  CASE v.t = "str" -> v.s # <<>>
    [] v.t = "num" -> v.s # <<"0">>
    [] v.t \in {"arr", "obj"} -> TRUE
    [] OTHER -> FALSE

\* v === undefined || v === null, the test of `??` and `?.`.
Nullish(v) == v.t \in {"undef", "null"}

\* a || b
JsOr(a, b) == IF Truthy(a) THEN a ELSE b

\* a ?? b
JsCoalesce(a, b) == IF Nullish(a) THEN b ELSE a

RECURSIVE Join(_)
\* Array.prototype.join(","), which String(array) applies.
Join(a) ==
  IF a = <<>> THEN <<>>
  ELSE IF Len(a) = 1 THEN a[1]
  ELSE a[1] \o <<",">> \o Join(Tail(a))

\* String(v)
JsString(v) ==
  CASE v.t = "str" -> v.s
    [] v.t = "num" -> v.s
    [] v.t = "arr" -> Join(v.a)
    [] v.t = "null" -> <<"null">>
    [] v.t = "obj" -> <<"[object Object]">>
    [] OTHER -> <<"undefined">>

RECURSIVE TrimStart(_)
TrimStart(s) == IF s # <<>> /\ s[1] = " " THEN TrimStart(Tail(s)) ELSE s

RECURSIVE TrimEnd(_)
TrimEnd(s) ==
  IF s # <<>> /\ s[Len(s)] = " " THEN TrimEnd(SubSeq(s, 1, Len(s) - 1)) ELSE s

\* String.prototype.trim()
Trim(s) == TrimEnd(TrimStart(s))

RECURSIVE SplitFrom(_, _)
\* The pieces of s between commas, cur being the piece read so far.
SplitFrom(s, cur) ==
  IF s = <<>> THEN <<cur>>
  ELSE IF s[1] = "," THEN <<cur>> \o SplitFrom(Tail(s), <<>>)
  ELSE SplitFrom(Tail(s), Append(cur, s[1]))

\* String.prototype.split(",")
Split(s) == SplitFrom(s, <<>>)

\* seq.map(t => t.trim())
MapTrim(seq) == [i \in 1..Len(seq) |-> Trim(seq[i])]

\* seq.filter(Boolean), over strings: the empty string is the only falsy one.
FilterBoolean(seq) == SelectSeq(seq, LAMBDA x : x # <<>>)

\* seq.includes(x)
Includes(seq, x) == \E i \in 1..Len(seq) : seq[i] = x

\* The string with its capitals lowered.
Lowered(x) == [i \in DOMAIN x |-> IF x[i] = "A" THEN "a" ELSE x[i]]

RECURSIVE SetOrderFoldingCase(_, _)
\* A de-duplication that takes strings differing only in case as equal.
SetOrderFoldingCase(seq, seen) ==
  IF seq = <<>> THEN <<>>
  ELSE IF Lowered(seq[1]) \in seen THEN SetOrderFoldingCase(Tail(seq), seen)
  ELSE <<seq[1]>> \o SetOrderFoldingCase(Tail(seq), seen \cup {Lowered(seq[1])})

RECURSIVE SetOrder(_, _)
\* [...new Set(seq)]: each value at its first occurrence.
SetOrder(seq, seen) ==
  IF seq = <<>> THEN <<>>
  ELSE IF seq[1] \in seen THEN SetOrder(Tail(seq), seen)
  ELSE <<seq[1]>> \o SetOrder(Tail(seq), seen \cup {seq[1]})

(***************************************************************************)
(* Inbound payloads: the value at every key path the handlers read; a key  *)
(* that the JSON body does not hold reads undefined.                       *)
(***************************************************************************)
TopKeys ==
  {"email", "phone", "firstName", "firstname", "first_name",
   "lastName", "lastname", "last_name", "tags", "locationId", "secret", "contact",
   "competency_coach_level", "source",
   "investor_archetype_ppt_frequency", "investor_archetype_ppt_profile",
   "investor_archetype_free_ppt_frequency",
   "free_operatingframe_frequency", "FreeOperatingFrameFrequency",
   "free_operatingframe_test", "FreeOperatingFrameTest"}

ContactKeys ==
  {"contact.email", "contact.email_address", "contact.phone",
   "contact.phone_number", "contact.first_name", "contact.firstname",
   "contact.firstName", "contact.last_name", "contact.lastname",
   "contact.lastName", "contact.tags", "contact.source",
   "contact.free_operatingframe_frequency", "contact.FreeOperatingFrameFrequency",
   "contact.free_operatingframe_test", "contact.FreeOperatingFrameTest"}

Paths == TopKeys \cup ContactKeys

\* The JSON object holding the given keys and nothing else; a nested key
\* brings the "contact" object with it.
Body(fields) ==
  [k \in Paths |->
     IF k \in DOMAIN fields THEN fields[k]
     ELSE IF k = "contact" /\ (DOMAIN fields \cap ContactKeys) # {} THEN Obj
     ELSE Undef]

\* p.split('.').reduce((o, k) => (o && o[k] !== undefined ? o[k] : undefined), payload)
Get(payload, path) ==
  IF path \in ContactKeys
  THEN IF Truthy(payload["contact"]) /\ payload["contact"].t = "obj"
       THEN payload[path] ELSE Undef
  ELSE payload[path]

\* payload.contact?.key
Opt(payload, path) ==
  IF Nullish(payload["contact"]) THEN Undef
  ELSE IF payload["contact"].t = "obj" THEN payload[path] ELSE Undef

\* pick(payload, ...paths): the first path whose value is neither undefined
\* nor null and whose String() is not blank.
pick(payload, paths) ==
  LET ok(i) == LET v == Get(payload, paths[i])
               IN ~Nullish(v) /\ Trim(JsString(v)) # <<>>
      hits == {i \in 1..Len(paths) : ok(i)}
  IN IF hits = {} THEN Undef
     ELSE Get(payload, paths[CHOOSE i \in hits : \A j \in hits : i <= j])

\* ensureArrayTags(v)
ensureArrayTags(v) ==
  IF v.t = "arr" THEN v.a
  ELSE IF v.t = "str" THEN FilterBoolean(MapTrim(Split(v.s)))
  ELSE <<>>

\* The keys the pattern /competency_coach/i matches, in the object's order.
PatternKeys == <<"competency_coach_level">>

RECURSIVE TagsFromKeys(_, _)
\* for (const [k, v] of Object.entries(payload)) { if (!v) continue;
\*   if (tagFromKeysRegex.test(k)) tags.push(String(v).trim()); }
TagsFromKeys(payload, keys) ==
  IF keys = <<>> THEN <<>>
  ELSE (IF Truthy(payload[keys[1]]) THEN <<Trim(JsString(payload[keys[1]]))>> ELSE <<>>)
       \o TagsFromKeys(payload, Tail(keys))

RECURSIVE PrependDefaults(_, _, _)
\* for (let i = defaultTags.length - 1; i >= 0; i--)
\*   if (!tags.includes(defaultTags[i])) tags.unshift(defaultTags[i]);
PrependDefaults(tags, defaultTags, i) ==
  IF i = 0 THEN tags
  ELSE PrependDefaults(
         IF Includes(tags, defaultTags[i]) THEN tags ELSE <<defaultTags[i]>> \o tags,
         defaultTags, i - 1)

\* A tag list that unshifts every default tag and removes no duplicate.
ContactTagsKeepingDuplicates(payload, defaultTags, usePattern) ==
  LET found  == ensureArrayTags(pick(payload, <<"tags", "contact.tags">>))
      pushed == IF usePattern THEN found \o TagsFromKeys(payload, PatternKeys) ELSE found
  IN FilterBoolean(defaultTags \o pushed)

\* The tag list of buildContactPayload, before `if (tags.length)`.
ContactTags(payload, defaultTags, usePattern) ==
  LET found  == ensureArrayTags(pick(payload, <<"tags", "contact.tags">>))
      pushed == IF usePattern THEN found \o TagsFromKeys(payload, PatternKeys) ELSE found
      all    == PrependDefaults(pushed, defaultTags, Len(defaultTags))
  IN FilterBoolean(SetOrder(all, {}))

\* The path at which pick(payload, 'tags', 'contact.tags') finds its value,
\* "" when it finds none.
TagsPath(payload) ==
  IF pick(payload, <<"tags">>) # Undef THEN "tags"
  ELSE IF pick(payload, <<"contact.tags">>) # Undef THEN "contact.tags"
  ELSE ""

\* The payload object as buildContactPayload leaves it: ensureArrayTags
\* returns an inbound array itself (`if (Array.isArray(v)) return v`), and
\* tags.push and tags.unshift then act on that array.
payloadAfter(payload, defaultTags, usePattern) ==
  LET at == TagsPath(payload)
  IN IF at = "" THEN payload
     ELSE IF payload[at].t # "arr" THEN payload
     ELSE LET pushed == IF usePattern
                        THEN payload[at].a \o TagsFromKeys(payload, PatternKeys)
                        ELSE payload[at].a
          IN [payload EXCEPT ![at] =
                Arr(PrependDefaults(pushed, defaultTags, Len(defaultTags)))]

\* `if (v) contact.key = v`
IfSet(v) == IF Truthy(v) THEN v ELSE Absent

\* buildContactPayload(payload, defaultTags, locationId, tagFromKeysRegex)
buildContactPayload(payload, defaultTags, locationId, usePattern) ==
  LET tags == ContactTags(payload, defaultTags, usePattern)
  IN [email      |-> IfSet(pick(payload, <<"email", "contact.email", "contact.email_address">>)),
      phone      |-> IfSet(pick(payload, <<"phone", "contact.phone", "contact.phone_number">>)),
      firstName  |-> IfSet(pick(payload, <<"firstName", "firstname", "first_name",
                                           "contact.first_name", "contact.firstname">>)),
      lastName   |-> IfSet(pick(payload, <<"lastName", "lastname", "last_name",
                                          "contact.last_name", "contact.lastname">>)),
      tags       |-> IF tags # <<>> THEN Arr(tags) ELSE Absent,
      locationId |-> IfSet(locationId)]

\* buildGhlContact(payload): every key is set, whatever its value.
buildGhlContact(payload) ==
  [email      |-> JsOr(payload["email"], Opt(payload, "contact.email")),
   phone      |-> JsOr(payload["phone"], Opt(payload, "contact.phone")),
   firstName  |-> JsOr(payload["firstName"], JsOr(payload["firstname"],
                    JsOr(Opt(payload, "contact.first_name"), Opt(payload, "contact.firstname")))),
   lastName   |-> JsOr(payload["lastName"], JsOr(payload["lastname"],
                    JsOr(Opt(payload, "contact.last_name"), Opt(payload, "contact.lastname")))),
   tags       |-> IF payload["tags"].t = "arr" THEN payload["tags"]
                  ELSE IF Truthy(payload["tags"])
                       THEN Arr(FilterBoolean(MapTrim(Split(JsString(payload["tags"])))))
                       ELSE Arr(<<>>),
   locationId |-> Absent]

\* The contact the inline revision of /webhook, /webhook2, /webhook3 builds.
inlineContact(payload) ==
  [email      |-> JsOr(payload["email"], Opt(payload, "contact.email")),
   phone      |-> JsOr(payload["phone"], Opt(payload, "contact.phone")),
   firstName  |-> JsOr(payload["firstName"], Opt(payload, "contact.first_name")),
   lastName   |-> JsOr(payload["lastName"], Opt(payload, "contact.last_name")),
   tags       |-> JsOr(payload["tags"], JsOr(Opt(payload, "contact.tags"), Arr(<<>>))),
   locationId |-> Absent]

\* The contact /webhook/new-ghl-account builds (the revision that checks its
\* credentials); the location id is added when the call is made.
newGhlContact(payload) ==
  [email      |-> JsCoalesce(payload["email"], Opt(payload, "contact.email")),
   phone      |-> JsCoalesce(payload["phone"], Opt(payload, "contact.phone")),
   firstName  |-> JsCoalesce(payload["firstName"],
                    JsCoalesce(Opt(payload, "contact.first_name"), Opt(payload, "contact.firstName"))),
   lastName   |-> JsCoalesce(payload["lastName"],
                    JsCoalesce(Opt(payload, "contact.last_name"), Opt(payload, "contact.lastName"))),
   tags       |-> IF payload["tags"].t = "arr" THEN payload["tags"]
                  ELSE IF Opt(payload, "contact.tags").t = "arr" THEN Opt(payload, "contact.tags")
                  ELSE Arr(<<>>),
   locationId |-> Absent]

\* The contact the ES-module revision of /webhook/new-ghl-account builds.
newGhlContactEsm(payload, locationId) ==
  [email      |-> JsCoalesce(payload["email"], Opt(payload, "contact.email")),
   phone      |-> JsCoalesce(payload["phone"], Opt(payload, "contact.phone")),
   firstName  |-> JsCoalesce(payload["firstName"], Opt(payload, "contact.first_name")),
   lastName   |-> JsCoalesce(payload["lastName"], Opt(payload, "contact.last_name")),
   tags       |-> IF payload["tags"].t = "arr" THEN payload["tags"]
                  ELSE IF Opt(payload, "contact.tags").t = "arr" THEN Opt(payload, "contact.tags")
                  ELSE Arr(<<>>),
   locationId |-> locationId]

\* `!contact.email && !contact.phone`: the handlers' validation.
MissingIdentity(contact) == ~Truthy(contact.email) /\ ~Truthy(contact.phone)

(***************************************************************************)
(* The normalizers applied to enumerated payloads.                         *)
(***************************************************************************)
DefaultTag == <<"From Account A">>   \* the tag every secret-checking handler passes
OtherTag   == <<"From Webhook">>     \* a second source tag, for lists of two

DefaultTagLists == {<<>>, <<DefaultTag>>, <<DefaultTag, OtherTag>>}

\* The pieces an enumerated tags string is made of.
Tokens == {<<>>, <<" ">>, <<"a">>, <<"b">>, <<" ", "b", " ">>}

RECURSIVE TokenLists(_)
TokenLists(n) ==
  IF n = 0 THEN {<<>>}
  ELSE TokenLists(n - 1) \cup
       {Append(l, t) : l \in {x \in TokenLists(n - 1) : Len(x) = n - 1}, t \in Tokens}

TagStrings == {Join(l) : l \in TokenLists(MaxTokens) \ {<<>>}}

RECURSIVE TagArrays(_)
TagArrays(n) ==
  IF n = 0 THEN {<<>>}
  ELSE TagArrays(n - 1) \cup
       {Append(l, t) : l \in {x \in TagArrays(n - 1) : Len(x) = n - 1},
                       t \in {<<>>, <<"a">>, <<"b">>, DefaultTag}}

TagValues ==
  {Undef, Null, Num(<<"0">>), Num(<<"5">>)}
    \cup {Str(x) : x \in TagStrings} \cup {Arr(x) : x \in TagArrays(MaxTagArr)}

EmailValues == {Undef, Null, Str(<<>>), Str(<<" ">>), Str(<<"a">>), Str(<<" ", "b">>), Num(<<"0">>)}
PhoneValues == {Undef, Str(<<" ">>), Str(<<"p">>)}
NameValues  == {Undef, Str(<<" ">>)}

NormInput(payload, defaultTags, locationId, usePattern) ==
  [payload |-> payload, defaultTags |-> defaultTags,
   locationId |-> locationId, usePattern |-> usePattern]

\* Payloads that vary the identity fields over every alias.
IdentityInputs ==
  {NormInput(Body(("email" :> e1) @@ ("contact.email" :> e2) @@ ("contact.email_address" :> e3)
                  @@ ("phone" :> p1) @@ ("contact.phone" :> p2) @@ ("contact" :> Obj)),
             <<DefaultTag>>, Undef, TRUE) :
     e1 \in EmailValues, e2 \in EmailValues, e3 \in EmailValues,
     p1 \in PhoneValues, p2 \in PhoneValues}

\* Payloads that vary the name fields over every alias (the last name mirrors
\* the first: the two are read the same way).
NameInputs ==
  {NormInput(Body(("email" :> Str(<<"a">>))
                  @@ ("firstName" :> n1) @@ ("lastName" :> n1)
                  @@ ("firstname" :> n2) @@ ("lastname" :> n2)
                  @@ ("first_name" :> n3) @@ ("last_name" :> n3)
                  @@ ("contact.first_name" :> n4) @@ ("contact.last_name" :> n4)
                  @@ ("contact.firstname" :> n5) @@ ("contact.lastname" :> n5)
                  @@ ("contact.firstName" :> n6) @@ ("contact.lastName" :> n6)
                  @@ ("contact" :> c)),
             <<DefaultTag>>, Str(<<"loc">>), FALSE) :
     n1 \in NameValues \cup {Str(<<"n1">>)}, n2 \in NameValues \cup {Str(<<"n2">>)},
     n3 \in NameValues \cup {Str(<<"n3">>)}, n4 \in NameValues \cup {Str(<<"n4">>)},
     n5 \in NameValues \cup {Str(<<"n5">>)}, n6 \in NameValues \cup {Str(<<"n6">>)},
     c \in {Obj, Null}}

\* Payloads that vary the tags, the pattern-matched key and the default tags.
TagInputs ==
  {NormInput(Body(("email" :> Str(<<"a">>)) @@ ("tags" :> t) @@ ("contact.tags" :> ct)
                  @@ ("competency_coach_level" :> k)),
             d, Undef, rx) :
     t \in TagValues, ct \in {Undef, Arr(<<<<"b">>>>)},
     k \in {Undef, Str(<<"a">>), Str(<<" ">>)},
     d \in DefaultTagLists, rx \in BOOLEAN}

\* Payloads whose tags differ only in case, as an array, as a comma-separated
\* string, through the pattern-matched key and through the default tags.
CaseInputs ==
  {NormInput(Body(("email" :> Str(<<"a">>)) @@ ("tags" :> t)
                  @@ ("competency_coach_level" :> k)),
             d, Undef, rx) :
     t \in {Undef, Arr(<<<<"a">>, <<"A">>>>), Arr(<<<<"A">>, <<"a">>, <<"A">>, <<>>>>),
            Str(<<"a", ",", "A">>), Str(<<"A", ",", " ", "a", ",", ",", "a">>)},
     k \in {Undef, Str(<<"a">>), Str(<<"A">>), Str(<<" ", "A", " ">>)},
     d \in {<<>>, <<<<"A">>>>, <<<<"a">>, <<"A">>>>},
     rx \in BOOLEAN}

NormInputs == IdentityInputs \cup NameInputs \cup TagInputs \cup CaseInputs

NoContact ==
  [email |-> Absent, phone |-> Absent, firstName |-> Absent, lastName |-> Absent,
   tags |-> Absent, locationId |-> Absent]

NoOutput == [fn |-> "none", contact |-> NoContact, payload |-> Body(<<>>)]

NoInput == NormInput(Body(<<>>), <<>>, Undef, FALSE)

InitNorm ==
  /\ nin \in NormInputs
  /\ nout = NoOutput
  /\ env = [rev |-> "none", secret |-> Undef, creds |-> TRUE]
  /\ reqs = <<>>
  /\ hsContacts = <<>>
  /\ hsBatches = <<>>
  /\ ghlCreated = <<>>

\* A normalizer is applied to the input: what it returns, and the payload
\* object as the call left it.
AppliedLeaving(fn, contact, payload) ==
  /\ nout.fn = "none"
  /\ nout' = [fn |-> fn, contact |-> contact, payload |-> payload]
  /\ UNCHANGED <<env, reqs, hsContacts, hsBatches, ghlCreated, nin>>

\* A normalizer that only reads its payload.
Applied(fn, contact) == AppliedLeaving(fn, contact, nin.payload)

ApplyBuildContactPayload ==
  AppliedLeaving("buildContactPayload",
          buildContactPayload(nin.payload, nin.defaultTags, nin.locationId, nin.usePattern),
          payloadAfter(nin.payload, nin.defaultTags, nin.usePattern))

ApplyBuildGhlContact == Applied("buildGhlContact", buildGhlContact(nin.payload))

ApplyInlineContact == Applied("inlineContact", inlineContact(nin.payload))

ApplyNewGhlContact == Applied("newGhlContact", newGhlContact(nin.payload))

ApplyNewGhlContactEsm ==
  Applied("newGhlContactEsm", newGhlContactEsm(nin.payload, nin.locationId))

\* The contact read back as a JSON object: the keys it holds and no other.
AsPayload(contact) ==
  Body([k \in {x \in DOMAIN contact : contact[x] # Absent} |-> contact[k]])

\* buildContactPayload applied to the contact it built, with the same default
\* tags, location id and pattern.
ReapplyBuildContactPayload ==
  /\ nout.fn = "buildContactPayload"
  /\ nout' = [fn |-> "buildContactPayload twice",
              contact |-> buildContactPayload(AsPayload(nout.contact), nin.defaultTags,
                                              nin.locationId, nin.usePattern),
              payload |-> payloadAfter(AsPayload(nout.contact), nin.defaultTags,
                                       nin.usePattern)]
  /\ UNCHANGED <<env, reqs, hsContacts, hsBatches, ghlCreated, nin>>

NextNorm ==
  \/ ApplyBuildContactPayload
  \/ ReapplyBuildContactPayload
  \/ ApplyBuildGhlContact
  \/ ApplyInlineContact
  \/ ApplyNewGhlContact
  \/ ApplyNewGhlContactEsm

SpecNorm == InitNorm /\ [][NextNorm]_vars

(***************************************************************************)
(* Claims about the normalizers.                                           *)
(***************************************************************************)
\* JSON.stringify, which axios applies to the contact: a key whose value is
\* undefined is left out of the body sent.
Wire(v) == IF v.t = "undef" THEN Absent ELSE v

IdentityFields == {"email", "phone", "firstName", "lastName"}

\* The candidate key paths of each field, in the order the function named
\* declares them.
Aliases(fn, field) ==
  IF fn = "buildContactPayload"
  THEN CASE field = "email" -> <<"email", "contact.email", "contact.email_address">>
         [] field = "phone" -> <<"phone", "contact.phone", "contact.phone_number">>
         [] field = "firstName" -> <<"firstName", "firstname", "first_name",
                                     "contact.first_name", "contact.firstname">>
         [] OTHER -> <<"lastName", "lastname", "last_name",
                       "contact.last_name", "contact.lastname">>
  ELSE CASE field = "email" -> <<"email", "contact.email">>
         [] field = "phone" -> <<"phone", "contact.phone">>
         [] field = "firstName" -> <<"firstName", "firstname",
                                     "contact.first_name", "contact.firstname">>
         [] OTHER -> <<"lastName", "lastname", "contact.last_name", "contact.lastname">>

\* A value that is present and not whitespace-only.
NonBlank(v) == ~Nullish(v) /\ Trim(JsString(v)) # <<>>

\* The value at the first path, in order, that holds a non-blank value.
FirstNonBlank(payload, paths) ==
  LET hits == {i \in 1..Len(paths) : NonBlank(Get(payload, paths[i]))}
  IN IF hits = {} THEN Absent
     ELSE Get(payload, paths[CHOOSE i \in hits : \A j \in hits : i <= j])

\* What the contact carries for a field: nothing when the key is left out or
\* holds null.
Carried(contact, field) ==
  IF Nullish(contact[field]) THEN Absent ELSE contact[field]

NamedNormalizers == {"buildContactPayload", "buildGhlContact"}

\* C7: CRM normalization resolves each of email, phone, firstName and
\* lastName to the value at the first candidate key path, in the declared
\* order, whose value is present and not whitespace-only.
C7_AliasPrecedence ==
  nout.fn \in NamedNormalizers =>
    \A f \in IdentityFields :
      Carried(nout.contact, f) = FirstNonBlank(nin.payload, Aliases(nout.fn, f))

TagsOf(contact) == IF contact.tags.t = "arr" THEN contact.tags.a ELSE <<>>

\* C8: a tags string is split on commas, each piece trimmed, empty pieces
\* dropped and duplicates removed keeping the first occurrence; a tags
\* sequence is used as it is (buildContactPayload, which de-duplicates its
\* final list, is held to that list); any other value yields no tags.  The
\* payload holds tags at the top level only, and no default tag or pattern
\* adds to them.
C8_TagsFromString ==
  (/\ nout.fn \in NamedNormalizers
   /\ Get(nin.payload, "contact.tags") = Undef
   /\ nout.fn = "buildContactPayload" => nin.defaultTags = <<>> /\ ~nin.usePattern)
  => LET v == nin.payload["tags"]
     IN TagsOf(nout.contact) =
          CASE v.t = "str" -> SetOrder(FilterBoolean(MapTrim(Split(v.s))), {})
            [] v.t = "arr" -> IF nout.fn = "buildGhlContact" THEN v.a
                              ELSE FilterBoolean(SetOrder(v.a, {}))
            [] OTHER -> <<>>

\* C9: in the tag list buildContactPayload builds, the default tags come
\* first, in their own order, ahead of every discovered tag.
C9_DefaultTagsLead ==
  nout.fn = "buildContactPayload" =>
    LET tags == TagsOf(nout.contact)
        d    == nin.defaultTags
    IN Len(tags) >= Len(d) /\ SubSeq(tags, 1, Len(d)) = d

\* C10: the contact holds email, phone, firstName or lastName only with a
\* non-empty value and tags only with a non-empty list: no empty-string, null
\* or undefined placeholder and no empty tags list (read on the body sent).
C10_NoPlaceholders ==
  nout.fn \in NamedNormalizers =>
    /\ \A f \in IdentityFields :
         Wire(nout.contact[f]) # Absent =>
           /\ ~Nullish(nout.contact[f])
           /\ nout.contact[f] # Str(<<>>)
    /\ Wire(nout.contact.tags) # Absent =>
         nout.contact.tags.t = "arr" /\ nout.contact.tags.a # <<>>

ContactOrRaw(raw, key) ==
  IF Nullish(raw["contact"]) THEN raw[key]
  ELSE IF raw["contact"].t = "obj" THEN raw["contact." \o key] ELSE Undef

\* normalizeHubSpotContact(raw)
normalizeHubSpotContact(raw) ==
  [email     |-> raw["email"],
   firstname |-> JsCoalesce(raw["firstname"], JsCoalesce(raw["firstName"], Str(<<>>))),
   lastname  |-> JsCoalesce(raw["lastname"], JsCoalesce(raw["lastName"], Str(<<>>))),
   phone     |-> JsCoalesce(raw["phone"], Str(<<>>)),
   source    |-> JsCoalesce(raw["source"], Str(<<>>)),
   investor_archetype_ppt_frequency |->
     JsCoalesce(raw["investor_archetype_ppt_frequency"], Str(<<>>)),
   investor_archetype_ppt_profile |->
     JsCoalesce(raw["investor_archetype_ppt_profile"], Str(<<>>)),
   investor_archetype_free_ppt_frequency |->
     JsCoalesce(raw["investor_archetype_free_ppt_frequency"], Str(<<>>))]

\* normalizeHubSpotContactOperatingFrame(raw)
normalizeHubSpotContactOperatingFrame(raw) ==
  [email     |-> JsCoalesce(raw["email"], ContactOrRaw(raw, "email")),
   firstname |-> JsCoalesce(raw["firstname"], JsCoalesce(raw["firstName"],
                   JsCoalesce(ContactOrRaw(raw, "first_name"),
                     JsCoalesce(ContactOrRaw(raw, "firstname"), Str(<<>>))))),
   lastname  |-> JsCoalesce(raw["lastname"], JsCoalesce(raw["lastName"],
                   JsCoalesce(ContactOrRaw(raw, "last_name"),
                     JsCoalesce(ContactOrRaw(raw, "lastname"), Str(<<>>))))),
   phone     |-> JsCoalesce(raw["phone"], JsCoalesce(ContactOrRaw(raw, "phone"), Str(<<>>))),
   Source    |-> JsCoalesce(raw["source"],
                   JsCoalesce(ContactOrRaw(raw, "source"), Str(<<"GHL Survey">>))),
   FreeOperatingFrameFrequency |->
     JsCoalesce(raw["free_operatingframe_frequency"],
       JsCoalesce(ContactOrRaw(raw, "free_operatingframe_frequency"),
         JsCoalesce(raw["FreeOperatingFrameFrequency"],
           JsCoalesce(ContactOrRaw(raw, "FreeOperatingFrameFrequency"), Str(<<>>))))),
   FreeOperatingFrameTest |->
     JsCoalesce(raw["free_operatingframe_test"],
       JsCoalesce(ContactOrRaw(raw, "free_operatingframe_test"),
         JsCoalesce(raw["FreeOperatingFrameTest"],
           JsCoalesce(ContactOrRaw(raw, "FreeOperatingFrameTest"), Str(<<>>)))))]

\* The properties the create-only revisions of /webhook/ghl-to-hubspot send.
legacyHubspotProperties(raw) ==
  [email     |-> raw["email"],
   firstname |-> JsOr(raw["firstname"], Str(<<>>)),
   lastname  |-> JsOr(raw["lastname"], Str(<<>>)),
   phone     |-> JsOr(raw["phone"], Str(<<>>)),
   source    |-> JsOr(raw["source"], Str(<<>>)),
   tags      |-> IF raw["tags"].t = "arr" THEN Str(Join(raw["tags"].a))
                 ELSE JsOr(raw["tags"], Str(<<>>))]

\* Payloads that hold or lack each key the marketing-platform normalizers
\* read, at the top level or nested under "contact".
MarketingInputs ==
  {NormInput(Body(("email" :> e) @@ ("firstname" :> f) @@ ("lastName" :> l) @@ ("phone" :> ph)
                  @@ ("source" :> so) @@ ("contact.source" :> cs)
                  @@ ("investor_archetype_ppt_profile" :> ia)
                  @@ ("free_operatingframe_test" :> ft)
                  @@ ("contact.FreeOperatingFrameFrequency" :> ff)
                  @@ ("contact" :> c)),
             <<>>, Undef, FALSE) :
     e \in {Undef, Str(<<"a">>)}, f \in {Undef, Str(<<"f">>)}, l \in {Undef, Null},
     ph \in {Undef, Str(<<"p">>)}, so \in {Undef, Str(<<"web">>)},
     cs \in {Undef, Str(<<"form">>)}, ia \in {Undef, Str(<<"x">>)},
     ft \in {Undef, Str(<<"t">>)}, ff \in {Undef, Str(<<"q">>)}, c \in {Undef, Obj}}

\* Payloads that vary the email at the top level and under contact.
EmailInputs ==
  {NormInput(Body(("email" :> e) @@ ("contact.email" :> ce) @@ ("contact" :> c)
                  @@ ("phone" :> ph)),
             <<>>, Undef, FALSE) :
     e \in {Undef, Null, Str(<<>>), Str(<<"a">>)}, ce \in {Undef, Str(<<>>), Str(<<"b">>)},
     c \in {Undef, Null, Obj}, ph \in {Undef, Str(<<"p">>)}}

InitMarketing ==
  /\ nin \in MarketingInputs \cup EmailInputs
  /\ nout = NoOutput
  /\ env = [rev |-> "none", secret |-> Undef, creds |-> TRUE]
  /\ reqs = <<>>
  /\ hsContacts = <<>>
  /\ hsBatches = <<>>
  /\ ghlCreated = <<>>

ApplyNormalizeHubSpotContact ==
  Applied("normalizeHubSpotContact", normalizeHubSpotContact(nin.payload))

ApplyNormalizeHubSpotContactOperatingFrame ==
  Applied("normalizeHubSpotContactOperatingFrame",
          normalizeHubSpotContactOperatingFrame(nin.payload))

NextMarketing ==
  \/ ApplyNormalizeHubSpotContact
  \/ ApplyNormalizeHubSpotContactOperatingFrame

SpecMarketing == InitMarketing /\ [][NextMarketing]_vars

\* The keys each marketing-platform normalizer sets.
MarketingKeys(fn) ==
  IF fn = "normalizeHubSpotContact"
  THEN {"email", "firstname", "lastname", "phone", "source",
        "investor_archetype_ppt_frequency", "investor_archetype_ppt_profile",
        "investor_archetype_free_ppt_frequency"}
  ELSE {"email", "firstname", "lastname", "phone", "Source",
        "FreeOperatingFrameFrequency", "FreeOperatingFrameTest"}

\* The payload holds nothing at all besides, perhaps, an email.
OnlyEmail(payload) ==
  \A k \in Paths \ {"email", "contact.email", "contact"} : Nullish(payload[k])

\* C14: a marketing-platform normalizer sets the same keys whatever the
\* payload, and, of a payload that holds nothing but an email, sets every
\* property other than email to the empty string.
C14_FixedKeysEmptyDefaults ==
  nout.fn \in {"normalizeHubSpotContact", "normalizeHubSpotContactOperatingFrame"} =>
    /\ DOMAIN nout.contact = MarketingKeys(nout.fn)
    /\ OnlyEmail(nin.payload) =>
         \A k \in DOMAIN nout.contact \ {"email"} : nout.contact[k] = Str(<<>>)

(***************************************************************************)
(* The server: requests, their handlers and the outbound calls.            *)
(***************************************************************************)
MaxReq == 2        \* requests the server handles, concurrently or one after another

Reqs == 1..MaxReq

\* The revisions of the server kept in the repository; one of them runs.
\*   A  server.js 1-322      shared secret, buildContactPayload, create-only HubSpot
\*   B  server.js 326-553    buildGhlContact, HubSpot upsert and batch
\*   C  server.js 554-617    /webhook/new-ghl-account alone (ES module)
\*   D  server.js 630-749    payloads passed through to the CRM
\*   E  part_000 1-515       B plus the OperatingFrame portal and /webhook/new-ghl-account
\*   F  part_000 518-728     inline contact, create-only HubSpot
Revisions == {"A", "B", "C", "D", "E", "F"}

Secret == Str(<<"s3cret">>)   \* the configured SHARED_SECRET
Guess  == Str(<<"guess">>)    \* any other value a caller may send

\* What an outbound call can come to: a 2xx response, a non-2xx response
\* carrying the remote's error payload, or no response within the timeout.
Outcomes == {"ok", "error", "timeout"}

NoBody == [status |-> "", id |-> 0, chunks |-> 0, results |-> <<>>, detail |-> ""]

Idle ==
  [h |-> "none", pc |-> "idle", fields |-> <<>>, hdr |-> Undef, qry |-> Undef,
   contact |-> NoContact, email |-> Undef, ev |-> <<>>, status |-> 0, body |-> NoBody,
   items |-> <<>>, chunks |-> <<>>, results |-> <<>>, found |-> 0, seen |-> 0,
   logs |-> <<>>]

\* One step of a request's history: a log append requested ("log"), a
\* normalization ("norm"), an outbound call issued ("call") or returned
\* ("ret"), a response sent ("resp").
Event(e, k, x) == [e |-> e, k |-> k, x |-> x]

Did(rec, e, k, x) == [rec EXCEPT !.ev = Append(@, Event(e, k, x))]

\* logToFile(filename, data): the append is requested and the handler goes on
\* while it is pending.
logToFile(rec, kind) == [Did(rec, "log", kind, 0) EXCEPT !.logs = Append(@, "pending")]

\* A callback that fails the request when the append failed.
AppendDoneFailing(rec, i, result) ==
  IF result = "failed" THEN [rec EXCEPT !.logs[i] = result, !.pc = "done", !.status = 500]
  ELSE [rec EXCEPT !.logs[i] = result]

\* The callback of fs.appendFile: err => { if (err) console.error(...) else
\* console.log(...) }.
AppendDone(rec, i, result) == [rec EXCEPT !.logs[i] = result]

\* A handler that answers and falls through to a second answer.
RespondTwice(rec, code, body) ==
  [Did(Did(rec, "resp", body.status, code), "resp", body.status, code)
     EXCEPT !.pc = "done", !.status = code, !.body = body]

\* res.status(code).json(body) / res.status(code).send(text)
Respond(rec, code, body) ==
  [Did(rec, "resp", body.status, code) EXCEPT !.pc = "done", !.status = code, !.body = body]

\* An outbound call is issued and the handler awaits it.
Await(rec, kind, x, pc) == [Did(rec, "call", kind, x) EXCEPT !.pc = pc]

ErrorBody(detail) == [NoBody EXCEPT !.status = "error", !.detail = detail]
TextBody == [NoBody EXCEPT !.status = "text"]

\* err.response?.data || err.message
ErrorDetail(outcome) == IF outcome = "error" THEN "remote" ELSE "message"

\* assertSharedSecret(req, res): TRUE when the request may proceed.
assertSharedSecret(configured, hdr, qry, payload) ==
  LET incoming == JsOr(hdr, JsOr(qry, payload["secret"]))
  IN \/ ~Truthy(configured)
     \/ Truthy(incoming) /\ JsString(incoming) = JsString(configured)

\* The secret as a caller may send it: nowhere, or in the header, the query
\* string or the body, rightly or wrongly.
SecretChannels ==
  {[hdr |-> Undef,  qry |-> Undef,  body |-> Undef],
   [hdr |-> Secret, qry |-> Undef,  body |-> Undef],
   [hdr |-> Guess,  qry |-> Undef,  body |-> Undef],
   [hdr |-> Undef,  qry |-> Secret, body |-> Undef],
   [hdr |-> Undef,  qry |-> Undef,  body |-> Secret],
   [hdr |-> Guess,  qry |-> Secret, body |-> Undef],
   [hdr |-> Undef,  qry |-> Guess,  body |-> Secret]}

\* The JSON body with the secret the caller put in it, if any.
WithSecret(fields, v) == IF v = Undef THEN fields ELSE fields @@ ("secret" :> v)

\* The payloads sent to the CRM handlers, each as the keys its JSON holds.
CrmPayloads ==
  {<<>>, "email" :> Str(<<"a">>), "email" :> Str(<<" ">>), "contact.phone" :> Str(<<"p">>)}

\* process.env.*_LOCATION_ID
LocationId == IF env.creds THEN Str(<<"loc">>) ELSE Undef

\* A request reaches handler h; requests are numbered in their order of arrival.
Arrive(r, h, fields, hdr, qry) ==
  [reqs[r] EXCEPT !.h = h, !.fields = fields, !.hdr = hdr, !.qry = qry]

CanArrive(r) ==
  /\ reqs[r].pc = "idle"
  /\ \A q \in Reqs : q < r => reqs[q].pc # "idle"

\* req.body of a request
Payload(rec) == Body(rec.fields)

\* A handler that writes the outcome log entry as it issues the call.
ValidateAndSendLoggingEarly(rec, fn, contact, missingBody) ==
  LET built == [Did(rec, "norm", fn, 0) EXCEPT !.contact = contact]
  IN IF MissingIdentity(contact) THEN Respond(built, 400, missingBody)
     ELSE logToFile(Await(built, "ghl.create", 0, "crm"), "response")

\* After normalization: reject a contact with neither email nor phone, else
\* issue the create call.
ValidateAndSend(rec, fn, contact, missingBody) ==
  LET built == [Did(rec, "norm", fn, 0) EXCEPT !.contact = contact]
  IN IF MissingIdentity(contact) THEN Respond(built, 400, missingBody)
     ELSE Await(built, "ghl.create", 0, "crm")

\* Revision A: app.post('/webhook' | '/webhook2' | '/webhook3' | '/webhook/new-ghl-account'),
\* up to its await.
CrmSecretWebhook(r) ==
  /\ env.rev = "A"
  /\ CanArrive(r)
  /\ \E p \in CrmPayloads, ch \in SecretChannels :
       LET payload == Body(WithSecret(p, ch.body))
           rec     == Arrive(r, "crm_secret", WithSecret(p, ch.body), ch.hdr, ch.qry)
       IN reqs' = [reqs EXCEPT ![r] =
            IF ~assertSharedSecret(env.secret, ch.hdr, ch.qry, payload)
            THEN Respond(rec, 401, ErrorBody("unauthorized"))
            ELSE ValidateAndSend(logToFile(rec, "inbound"), "buildContactPayload",
                   buildContactPayload(payload, <<DefaultTag>>, LocationId, TRUE),
                   ErrorBody("missing"))]
  /\ UNCHANGED <<env, hsContacts, hsBatches, ghlCreated, nin, nout>>

\* Revisions B and E: app.post("/webhook" | "/webhook2" | "/webhook3"), up to its await.
CrmGhlWebhook(r) ==
  /\ env.rev \in {"B", "E"}
  /\ CanArrive(r)
  /\ \E p \in CrmPayloads :
       reqs' = [reqs EXCEPT ![r] =
         ValidateAndSend(logToFile(Arrive(r, "crm_ghl", p, Undef, Undef), "inbound"),
                         "buildGhlContact", buildGhlContact(Body(p)), TextBody)]
  /\ UNCHANGED <<env, hsContacts, hsBatches, ghlCreated, nin, nout>>

\* Revision F: app.post('/webhook' | '/webhook2' | '/webhook3'), up to its await.
CrmInlineWebhook(r) ==
  /\ env.rev = "F"
  /\ CanArrive(r)
  /\ \E p \in CrmPayloads :
       reqs' = [reqs EXCEPT ![r] =
         ValidateAndSend(logToFile(Arrive(r, "crm_inline", p, Undef, Undef), "inbound"),
                         "inlineContact", inlineContact(Body(p)), TextBody)]
  /\ UNCHANGED <<env, hsContacts, hsBatches, ghlCreated, nin, nout>>

\* Revision D: app.post('/webhook' | '/webhook2' | '/webhook3'): the payload is
\* logged and sent on as it is.
CrmPassWebhook(r) ==
  /\ env.rev = "D"
  /\ CanArrive(r)
  /\ \E p \in CrmPayloads :
       reqs' = [reqs EXCEPT ![r] =
         Await(logToFile(Arrive(r, "crm_pass", p, Undef, Undef), "inbound"),
               "ghl.create", 0, "crm")]
  /\ UNCHANGED <<env, hsContacts, hsBatches, ghlCreated, nin, nout>>

\* Revision E: app.post("/webhook/new-ghl-account"), up to its await.
NewGhlAccount(r) ==
  /\ env.rev = "E"
  /\ CanArrive(r)
  /\ \E p \in CrmPayloads :
       LET rec   == Arrive(r, "crm_new", p, Undef, Undef)
           built == ValidateAndSend(rec, "newGhlContact", newGhlContact(Body(p)), TextBody)
       IN reqs' = [reqs EXCEPT ![r] =
            IF built.pc = "crm" /\ ~env.creds
            THEN Respond([Did(rec, "norm", "newGhlContact", 0)
                            EXCEPT !.contact = newGhlContact(Body(p))], 500, TextBody)
            ELSE built]
  /\ UNCHANGED <<env, hsContacts, hsBatches, ghlCreated, nin, nout>>

\* Revision C: app.post('/webhook/new-ghl-account'), up to its await.
NewGhlAccountEsm(r) ==
  /\ env.rev = "C"
  /\ CanArrive(r)
  /\ \E p \in CrmPayloads :
       reqs' = [reqs EXCEPT ![r] =
         ValidateAndSend(Arrive(r, "crm_new_esm", p, Undef, Undef),
                         "newGhlContactEsm", newGhlContactEsm(Body(p), LocationId), TextBody)]
  /\ UNCHANGED <<env, hsContacts, hsBatches, ghlCreated, nin, nout>>

\* A write the remote may have applied: always on a 2xx, never on an error
\* response, either way when no response came in time.
MayApply(outcome) ==
  IF outcome = "ok" THEN {TRUE} ELSE IF outcome = "error" THEN {FALSE} ELSE BOOLEAN

\* Without the destination's credentials no call succeeds.
Possible(outcome) == outcome = "ok" => env.creds

\* A handler that sends the contact again when the call timed out.
AnswerCrmRetrying(rec, outcome) ==
  IF outcome = "timeout" THEN Await(rec, "ghl.create", 0, "crm")
  ELSE Respond(rec, IF outcome = "ok" THEN 200 ELSE 500, TextBody)

\* try { await upsertToGHL(...); res.status(200)... } catch (err) {
\* res.status(500)... }: the answer to the outcome of the create call.
AnswerCrm(rec, outcome) ==
  LET logged == IF rec.h = "crm_secret"
                THEN logToFile(rec, IF outcome = "ok" THEN "response" ELSE "error")
                ELSE rec
  IN IF outcome = "ok"
     THEN Respond(logged, 200,
            IF rec.h = "crm_secret" THEN [NoBody EXCEPT !.status = "success"] ELSE TextBody)
     ELSE Respond(logged, 500,
            IF rec.h \in {"crm_secret", "crm_new"} THEN ErrorBody(ErrorDetail(outcome))
            ELSE TextBody)

\* The CRM's create call returns; the handler answers (and, in revision A,
\* logs the outcome first).
CrmReturn(r) ==
  /\ reqs[r].pc = "crm"
  /\ \E outcome \in Outcomes :
       /\ Possible(outcome)
       /\ \E applied \in MayApply(outcome) :
            ghlCreated' = IF applied THEN Append(ghlCreated, r) ELSE ghlCreated
       /\ reqs' = [reqs EXCEPT ![r] = AnswerCrm(Did(reqs[r], "ret", outcome, 0), outcome)]
  /\ UNCHANGED <<env, hsContacts, hsBatches, nin, nout>>

\* A pending append to a log file completes, written or failed, and its
\* callback runs.
LogComplete(r) ==
  /\ \E i \in DOMAIN reqs[r].logs, result \in {"written", "failed"} :
       /\ reqs[r].logs[i] = "pending"
       /\ reqs' = [reqs EXCEPT ![r] = AppendDone(reqs[r], i, result)]
  /\ UNCHANGED <<env, hsContacts, hsBatches, ghlCreated, nin, nout>>

(***************************************************************************)
(* The marketing-platform handlers.                                        *)
(***************************************************************************)
\* The payloads sent to the single-contact marketing handlers.
HsPayloads ==
  {<<>>, "email" :> Str(<<"a">>), "email" :> Str(<<"b">>), "contact.email" :> Str(<<"a">>)}

\* Which portal a handler's token opens.
Portal(h) == IF h = "hs_of" THEN "of" ELSE "main"

\* if (!properties.email) 400, else the search call is issued.
ValidateAndSearch(rec, fn, email) ==
  LET built == [Did(rec, "norm", fn, 0) EXCEPT !.email = email]
  IN IF ~Truthy(email) THEN Respond(built, 400, ErrorBody("missing"))
     ELSE Await(built, "hs.search", 0, "search")

\* Revisions B and E: app.post('/webhook/ghl-to-hubspot'), up to its first await.
HubspotSingle(r) ==
  /\ env.rev \in {"B", "E"}
  /\ CanArrive(r)
  /\ \E p \in HsPayloads :
       reqs' = [reqs EXCEPT ![r] =
         ValidateAndSearch(Arrive(r, "hs_upsert", p, Undef, Undef),
                           "normalizeHubSpotContact", normalizeHubSpotContact(Body(p)).email)]
  /\ UNCHANGED <<env, hsContacts, hsBatches, ghlCreated, nin, nout>>

\* Revision E: app.post("/webhook/ghl-to-hubspot-operatingframe"), up to its first await.
HubspotOperatingFrame(r) ==
  /\ env.rev = "E"
  /\ CanArrive(r)
  /\ \E p \in HsPayloads :
       LET rec == logToFile(Arrive(r, "hs_of", p, Undef, Undef), "inbound")
       IN reqs' = [reqs EXCEPT ![r] =
            IF ~env.creds THEN Respond(rec, 500, ErrorBody("not configured"))
            ELSE ValidateAndSearch(rec, "normalizeHubSpotContactOperatingFrame",
                                   normalizeHubSpotContactOperatingFrame(Body(p)).email)]
  /\ UNCHANGED <<env, hsContacts, hsBatches, ghlCreated, nin, nout>>

\* Revisions A and F: app.post('/webhook/ghl-to-hubspot'), which creates
\* without searching; revision A checks the shared secret first.
HubspotCreateOnly(r) ==
  /\ env.rev \in {"A", "F"}
  /\ CanArrive(r)
  /\ \E p \in HsPayloads, ch \in SecretChannels :
       /\ env.rev = "F" => ch = [hdr |-> Undef, qry |-> Undef, body |-> Undef]
       /\ LET rec   == Arrive(r, "hs_create", WithSecret(p, ch.body), ch.hdr, ch.qry)
              email == legacyHubspotProperties(Body(p)).email
              built == [Did(rec, "norm", "legacyHubspotProperties", 0) EXCEPT !.email = email]
          IN reqs' = [reqs EXCEPT ![r] =
               IF env.rev = "A"
                  /\ ~assertSharedSecret(env.secret, ch.hdr, ch.qry, Body(WithSecret(p, ch.body)))
               THEN Respond(rec, 401, ErrorBody("unauthorized"))
               ELSE IF ~Truthy(email) THEN Respond(rec, 400, ErrorBody("missing"))
               ELSE Await(built, "hs.create", 0, "create")]
  /\ UNCHANGED <<env, hsContacts, hsBatches, ghlCreated, nin, nout>>

\* A catch that starts the upsert over.
CatchAndSearchAgain(rec, outcome) == Await(rec, "hs.search", 0, "search")

\* catch (error) { const details = error.response?.data || error.message;
\* return res.status(500).json({ status: 'error', error: details }); }
Catch(rec, outcome) == Respond(rec, 500, ErrorBody(ErrorDetail(outcome)))

\* A search that never finds the record.
SearchResultStale(portal, email) == {0}

\* The records of a portal that the search filter (email EQ value) matches.
Matches(portal, email) ==
  {i \in 1..Len(hsContacts[portal]) : hsContacts[portal][i].email = email}

\* What a search with limit 1 may return: the id of a matching record, or 0
\* when none matches.
SearchResult(portal, email) ==
  IF Matches(portal, email) = {} THEN {0} ELSE Matches(portal, email)

\* A handler that creates whatever the search found.
AfterSearchAlwaysCreate(rec, id) == Await(rec, "hs.create", 0, "create")

\* const existing = search.data?.results?.[0] || null: the update of the
\* record found is issued, or the create when none was.
AfterSearch(rec, id) ==
  IF id # 0 THEN Await([rec EXCEPT !.found = id], "hs.update", id, "update")
  ELSE Await(rec, "hs.create", 0, "create")

\* The search call returns: on a result the handler issues the update of the
\* record found, or the create when none was; on a failure it answers 500.
SearchReturn(r) ==
  /\ reqs[r].pc = "search"
  /\ \E outcome \in Outcomes :
       /\ Possible(outcome)
       /\ \E id \in SearchResult(Portal(reqs[r].h), reqs[r].email) :
            LET portal == Portal(reqs[r].h)
                rec    == [Did(reqs[r], "ret", outcome, IF outcome = "ok" THEN id ELSE 0)
                             EXCEPT !.seen = Len(hsContacts[portal])]
            IN reqs' = [reqs EXCEPT ![r] =
                 IF outcome # "ok" THEN Catch(rec, outcome)
                 ELSE AfterSearch(rec, id)]
  /\ UNCHANGED <<env, hsContacts, hsBatches, ghlCreated, nin, nout>>

\* The create call returns: the portal has a new record (its id the next
\* free one) when it applied the call, and the handler answers.
CreateReturn(r) ==
  /\ reqs[r].pc = "create"
  /\ \E outcome \in Outcomes :
       /\ Possible(outcome)
       /\ \E applied \in MayApply(outcome) :
            LET portal == Portal(reqs[r].h)
                id     == Len(hsContacts[portal]) + 1
                rec    == Did(reqs[r], "ret", outcome, IF outcome = "ok" THEN id ELSE 0)
            IN /\ hsContacts' =
                    IF applied
                    THEN [hsContacts EXCEPT ![portal] =
                            Append(@, [email |-> reqs[r].email, by |-> r, updates |-> 0])]
                    ELSE hsContacts
               /\ reqs' = [reqs EXCEPT ![r] =
                    IF outcome # "ok" THEN Catch(rec, outcome)
                    ELSE Respond(rec, 200,
                           [NoBody EXCEPT !.status = IF rec.h = "hs_create" THEN "success"
                                                     ELSE "created",
                                          !.id = id])]
  /\ UNCHANGED <<env, hsBatches, ghlCreated, nin, nout>>

\* The update call returns: the record is updated when the portal applied
\* the call, and the handler answers.
UpdateReturn(r) ==
  /\ reqs[r].pc = "update"
  /\ \E outcome \in Outcomes :
       /\ Possible(outcome)
       /\ \E applied \in MayApply(outcome) :
            LET portal == Portal(reqs[r].h)
                id     == reqs[r].found
                rec    == Did(reqs[r], "ret", outcome, IF outcome = "ok" THEN id ELSE 0)
            IN /\ hsContacts' =
                    IF applied
                    THEN [hsContacts EXCEPT ![portal][id].updates = @ + 1]
                    ELSE hsContacts
               /\ reqs' = [reqs EXCEPT ![r] =
                    IF outcome # "ok" THEN Catch(rec, outcome)
                    ELSE Respond(rec, 200, [NoBody EXCEPT !.status = "updated", !.id = id])]
  /\ UNCHANGED <<env, hsBatches, ghlCreated, nin, nout>>

(***************************************************************************)
(* Batch upsert.                                                           *)
(***************************************************************************)
BatchLimit == 100   \* chunk(items, 100)
MaxBatch == 250     \* the longest contacts array sent

\* A slice that stops one element early.
SliceShort(arr, lo, hi) == SubSeq(arr, lo + 1, IF hi - 1 < Len(arr) THEN hi - 1 ELSE Len(arr))

\* arr.slice(lo, hi), lo and hi counted from 0
Slice(arr, lo, hi) == SubSeq(arr, lo + 1, IF hi < Len(arr) THEN hi ELSE Len(arr))

\* chunk(arr, size) ==
\*   arr.reduce((a, _, i) => (i % size ? a : [...a, arr.slice(i, i + size)]), [])
\* The reduce visits the indices in ascending order and appends a slice at
\* each index i with i % size = 0: the k-th group is the slice at the k-th
\* such index.
chunk(arr, size) ==
  LET starts == {i \in 0..(Len(arr) - 1) : i % size = 0}
      nth(k) == CHOOSE i \in starts : Cardinality({j \in starts : j < i}) = k - 1
  IN [k \in 1..Cardinality(starts) |-> Slice(arr, nth(k), nth(k) + size)]

\* A contacts array of n contacts, each known by its number.
Contacts(n) == [i \in 1..n |-> i]

\* The array with its i-th contact sent without an email, known by the
\* negative of its number.
WithoutEmail(arr, i) == [arr EXCEPT ![i] = 0 - arr[i]]

\* The contacts arrays of the given lengths: every contact with an email, or
\* the last one without.
Arrays(sizes) ==
  {Contacts(n) : n \in sizes} \cup {WithoutEmail(Contacts(n), n) : n \in sizes \ {0}}

\* The array lengths tried while other requests are in flight.
SpotSizes == {0, 1, BatchLimit, BatchLimit + 1, MaxBatch}

\* The arrays tried while other requests are in flight.
SpotArrays == {Contacts(n) : n \in SpotSizes} \cup {WithoutEmail(Contacts(1), 1)}

\* The JSON of an element of the contacts array: contact 0 is the request
\* body itself, taken as a batch of one.
ItemFields(rec, c) ==
  IF c = 0 THEN rec.fields
  ELSE IF c > 0 THEN "email" :> Str(<<"a">>)
  ELSE "phone" :> Str(<<"p">>)

\* const inputs = group.map(c => ({ idProperty: 'email', properties: normalize(c) }))
inputs(rec, group) ==
  [i \in DOMAIN group |->
     [idProperty |-> "email",
      properties |-> IF rec.h = "hs_of_batch"
                     THEN normalizeHubSpotContactOperatingFrame(Body(ItemFields(rec, group[i])))
                     ELSE normalizeHubSpotContact(Body(ItemFields(rec, group[i])))]]

\* What the platform answers to a batch call: the results for its inputs.
BatchData(group) == [first |-> group[1], n |-> Len(group)]

\* if (!items.length) 400, else the groups are cut and the first call issued.
ChunkAndSend(rec, items) ==
  IF items = <<>> THEN Respond(rec, 400, ErrorBody("missing"))
  ELSE Await([rec EXCEPT !.items = items, !.chunks = chunk(items, BatchLimit)],
             "hs.batch", 1, "batch")

\* Revisions B and E: app.post('/webhook/ghl-to-hubspot-batch'), up to its first await.
HubspotBatch(r, arrays) ==
  /\ env.rev \in {"B", "E"}
  /\ CanArrive(r)
  /\ \E contacts \in arrays :
       reqs' = [reqs EXCEPT ![r] =
         ChunkAndSend(Arrive(r, "hs_batch", <<>>, Undef, Undef), contacts)]
  /\ UNCHANGED <<env, hsContacts, hsBatches, ghlCreated, nin, nout>>

\* Revision E: app.post("/webhook/ghl-to-hubspot-operatingframe-batch"), up to
\* its first await; a body that is one contact is taken as a batch of one.
OperatingFrameBatch(r, arrays) ==
  /\ env.rev = "E"
  /\ CanArrive(r)
  /\ \E contacts \in arrays, p \in HsPayloads :
       /\ contacts # <<>> => p = <<>>
       /\ LET rec   == logToFile(Arrive(r, "hs_of_batch", p, Undef, Undef), "inbound")
              items == IF contacts # <<>> THEN contacts
                       ELSE IF Truthy(Body(p)["email"]) \/ Truthy(Opt(Body(p), "contact.email"))
                            THEN <<0>> ELSE <<>>
          IN reqs' = [reqs EXCEPT ![r] =
               IF ~env.creds THEN Respond(rec, 500, ErrorBody("not configured"))
               ELSE ChunkAndSend(rec, items)]
  /\ UNCHANGED <<env, hsContacts, hsBatches, ghlCreated, nin, nout>>

\* A catch that hands back the responses collected before the failure.
BatchCatchWithResults(rec, outcome) ==
  Respond(rec, 500, [ErrorBody(ErrorDetail(outcome))
                       EXCEPT !.chunks = Len(rec.results), !.results = rec.results])

\* catch (error) { const details = error.response?.data || error.message;
\* return res.status(500).json({ status: 'error', error: details }); }
BatchCatch(rec, outcome) == Respond(rec, 500, ErrorBody(ErrorDetail(outcome)))

\* A loop that goes on to the next group after a failed call.
AfterGroupBestEffort(rec, outcome, k) ==
  LET kept == [rec EXCEPT !.results = Append(@, BatchData(rec.chunks[k]))]
  IN IF k < Len(rec.chunks) THEN Await(kept, "hs.batch", k + 1, "batch")
     ELSE IF outcome # "ok" THEN Respond(rec, 500, ErrorBody(ErrorDetail(outcome)))
     ELSE Respond(kept, 200,
            [NoBody EXCEPT !.status = "success", !.chunks = Len(kept.results),
                           !.results = kept.results])

\* The loop over the groups after the call for group k has returned: a
\* failure throws out of the loop to the catch, a response is pushed and the
\* next group's call issued, and after the last group the handler answers.
AfterGroup(rec, outcome, k) ==
  LET kept == [rec EXCEPT !.results = Append(@, BatchData(rec.chunks[k]))]
  IN IF outcome # "ok" THEN BatchCatch(rec, outcome)
     ELSE IF k < Len(rec.chunks) THEN Await(kept, "hs.batch", k + 1, "batch")
     ELSE Respond(kept, 200,
            [NoBody EXCEPT !.status = "success", !.chunks = Len(kept.results),
                           !.results = kept.results])

\* A batch call returns: its response is kept and the next group's call is
\* issued, or, after the last group, the handler answers; on a failure the
\* handler answers 500 at once.
BatchReturn(r) ==
  /\ reqs[r].pc = "batch"
  /\ \E outcome \in Outcomes :
       /\ Possible(outcome)
       /\ LET k == Len(reqs[r].results) + 1
          IN /\ \E applied \in MayApply(outcome) :
                  hsBatches' = IF applied
                               THEN Append(hsBatches,
                                           [by |-> r, k |-> k, inputs |-> reqs[r].chunks[k]])
                               ELSE hsBatches
             /\ reqs' = [reqs EXCEPT ![r] = AfterGroup(Did(reqs[r], "ret", outcome, k), outcome, k)]
  /\ UNCHANGED <<env, hsContacts, ghlCreated, nin, nout>>

Init ==
  /\ env \in [rev : Revisions, secret : {Undef, Secret}, creds : BOOLEAN]
  /\ reqs = [r \in Reqs |-> Idle]
  /\ hsContacts = [main |-> <<>>, of |-> <<>>]
  /\ hsBatches = <<>>
  /\ ghlCreated = <<>>
  /\ nin = NoInput
  /\ nout = NoOutput

Next ==
  \/ \E r \in Reqs : CrmSecretWebhook(r)
  \/ \E r \in Reqs : CrmGhlWebhook(r)
  \/ \E r \in Reqs : CrmInlineWebhook(r)
  \/ \E r \in Reqs : CrmPassWebhook(r)
  \/ \E r \in Reqs : NewGhlAccount(r)
  \/ \E r \in Reqs : NewGhlAccountEsm(r)
  \/ \E r \in Reqs : CrmReturn(r)
  \/ \E r \in Reqs : HubspotSingle(r)
  \/ \E r \in Reqs : HubspotOperatingFrame(r)
  \/ \E r \in Reqs : HubspotCreateOnly(r)
  \/ \E r \in Reqs : SearchReturn(r)
  \/ \E r \in Reqs : CreateReturn(r)
  \/ \E r \in Reqs : UpdateReturn(r)
  \/ \E r \in Reqs : HubspotBatch(r, SpotArrays)
  \/ \E r \in Reqs : OperatingFrameBatch(r, SpotArrays)
  \/ \E r \in Reqs : BatchReturn(r)
  \/ \E r \in Reqs : LogComplete(r)

Spec == Init /\ [][Next]_vars

(***************************************************************************)
(* The batch handlers alone, one request at a time, over every array       *)
(* length up to MaxBatch.                                                  *)
(***************************************************************************)
InitChunk == Init /\ env.rev \in {"B", "E"}

NextChunk ==
  \/ HubspotBatch(1, Arrays(0..MaxBatch))
  \/ OperatingFrameBatch(1, Arrays(0..MaxBatch))
  \/ BatchReturn(1)

SpecChunk == InitChunk /\ [][NextChunk]_vars

(***************************************************************************)
(* The single-upsert handlers alone, in the revisions that have them.      *)
(***************************************************************************)
InitUpsert == Init /\ env.rev \in {"B", "E"}

NextUpsert ==
  \/ \E r \in Reqs : HubspotSingle(r)
  \/ \E r \in Reqs : HubspotOperatingFrame(r)
  \/ \E r \in Reqs : SearchReturn(r)
  \/ \E r \in Reqs : CreateReturn(r)
  \/ \E r \in Reqs : UpdateReturn(r)

SpecUpsert == InitUpsert /\ [][NextUpsert]_vars

(***************************************************************************)
(* One request, through any handler of any revision; the marketing         *)
(* platform may hold a contact made before the server started.             *)
(***************************************************************************)
\* A record of the marketing platform that no request of this run created.
Earlier == [email |-> Str(<<"a">>), by |-> 0, updates |-> 0]

InitSingle ==
  /\ env \in [rev : Revisions, secret : {Undef, Secret}, creds : BOOLEAN]
  /\ reqs = [r \in Reqs |-> Idle]
  /\ hsContacts \in {[main |-> <<>>, of |-> <<>>], [main |-> <<Earlier>>, of |-> <<Earlier>>]}
  /\ hsBatches = <<>>
  /\ ghlCreated = <<>>
  /\ nin = NoInput
  /\ nout = NoOutput

NextSingle ==
  \/ CrmSecretWebhook(1)
  \/ CrmGhlWebhook(1)
  \/ CrmInlineWebhook(1)
  \/ CrmPassWebhook(1)
  \/ NewGhlAccount(1)
  \/ NewGhlAccountEsm(1)
  \/ CrmReturn(1)
  \/ HubspotSingle(1)
  \/ HubspotOperatingFrame(1)
  \/ HubspotCreateOnly(1)
  \/ SearchReturn(1)
  \/ CreateReturn(1)
  \/ UpdateReturn(1)
  \/ HubspotBatch(1, SpotArrays)
  \/ OperatingFrameBatch(1, SpotArrays)
  \/ BatchReturn(1)
  \/ LogComplete(1)

SpecSingle == InitSingle /\ [][NextSingle]_vars

\* The same, with every outbound call returning or timing out in the end:
\* the calls carry a timeout, after which the awaiting handler is resumed.
SpecSingleFair ==
  /\ InitSingle /\ [][NextSingle]_vars
  /\ WF_vars(CrmReturn(1))
  /\ WF_vars(SearchReturn(1))
  /\ WF_vars(CreateReturn(1))
  /\ WF_vars(UpdateReturn(1))
  /\ WF_vars(BatchReturn(1))

(***************************************************************************)
(* Properties of the handlers.                                             *)
(***************************************************************************)
CrmHandlers == {"crm_secret", "crm_ghl", "crm_inline", "crm_pass", "crm_new", "crm_new_esm"}
Upserts     == {"hs_upsert", "hs_of"}
Batches     == {"hs_batch", "hs_of_batch"}

\* The positions in a request's history of the events of one sort.
At(rec, e) == {i \in DOMAIN rec.ev : rec.ev[i].e = e}

\* The positions of the calls of one kind.
CallsOf(rec, kind) == {i \in At(rec, "call") : rec.ev[i].k = kind}

Answered(rec, code) == rec.pc = "done" /\ rec.status = code

\* Every key path at which some CRM handler looks for an email or a phone.
IdentityPaths ==
  {"email", "contact.email", "contact.email_address",
   "phone", "contact.phone", "contact.phone_number"}

ResolvesIdentity(payload) == \E path \in IdentityPaths : NonBlank(Get(payload, path))

\* C1: a request to a CRM handler whose payload holds neither an email nor a
\* phone at any alias has no outbound call issued for it, and the answer it
\* gets is 400 (or the 401 of a failed secret check, which comes first).
C1_MissingIdentityRejected ==
  \A r \in Reqs :
    (reqs[r].h \in CrmHandlers /\ ~ResolvesIdentity(Payload(reqs[r]))) =>
      /\ At(reqs[r], "call") = {}
      /\ reqs[r].pc = "done" => reqs[r].status \in {400, 401}

\* C2: a single upsert with a non-empty email issues the search first; a
\* search that finds nothing (and nothing was there to find) is followed by
\* exactly one create, answered 200 'created' with the id the create
\* assigned; a search that finds a record is followed by exactly one update
\* of that record, answered 200 'updated' with the same id; no create follows
\* a find and no update follows a miss.
C2_SearchThenCreateOrUpdate ==
  \A r \in Reqs :
    LET rec     == reqs[r]
        ev      == rec.ev
        store   == hsContacts[Portal(rec.h)]
        calls   == At(rec, "call")
        creates == CallsOf(rec, "hs.create")
        updates == CallsOf(rec, "hs.update")
    IN rec.h \in Upserts =>
         /\ Truthy(rec.email) => calls # {}
         /\ \A i \in calls : (\A j \in calls : i <= j) <=> ev[i].k = "hs.search"
         /\ Cardinality(creates \cup updates) <= 1
         /\ \A i \in creates :
              /\ i - 2 \in CallsOf(rec, "hs.search")
              /\ ev[i - 1] = Event("ret", "ok", 0)
              /\ \A n \in 1..rec.seen : store[n].email # rec.email
         /\ \A i \in updates :
              /\ i - 2 \in CallsOf(rec, "hs.search")
              /\ ev[i - 1] = Event("ret", "ok", ev[i].x)
              /\ ev[i].x \in DOMAIN store
              /\ store[ev[i].x].email = rec.email
         /\ \A i \in At(rec, "ret") :
              (i - 1 \in CallsOf(rec, "hs.search") /\ ev[i].k = "ok") =>
                /\ i + 1 \in (IF ev[i].x = 0 THEN creates ELSE updates)
                /\ ev[i + 1].x = ev[i].x
         /\ Answered(rec, 200) =>
              \/ /\ rec.body.status = "created"
                 /\ creates # {}
                 /\ rec.body.id \in DOMAIN store
                 /\ store[rec.body.id].by = r
                 /\ store[rec.body.id].email = rec.email
              \/ /\ rec.body.status = "updated"
                 /\ \E i \in updates : ev[i].x = rec.body.id
                 /\ store[rec.body.id].updates >= 1

\* A request answered 'created' and a later one for the same email answered
\* 'updated' with the id of the record the first created.
C2_Witness ==
  \E r1, r2 \in Reqs :
    /\ reqs[r1].h \in Upserts /\ reqs[r2].h \in Upserts
    /\ Answered(reqs[r1], 200) /\ reqs[r1].body.status = "created"
    /\ Answered(reqs[r2], 200) /\ reqs[r2].body.status = "updated"
    /\ reqs[r2].body.id = reqs[r1].body.id
    /\ reqs[r2].email = reqs[r1].email

\* The groups of a request that the platform has applied, in the order it
\* applied them.
AppliedBy(r) == SelectSeq(hsBatches, LAMBDA b : b.by = r)

\* C3: a batch request issues only batch-upsert calls, one per group and in
\* group order, each after the call before it returned successfully; when
\* the call for group k fails the groups before k stay applied, no call is
\* issued for a group after k, and the answer is 500.
C3_SequentialAbortOnFailure ==
  \A r \in Reqs :
    LET rec   == reqs[r]
        ev    == rec.ev
        calls == At(rec, "call")
        done  == AppliedBy(r)
    IN rec.h \in Batches =>
         /\ \A i \in calls :
              /\ ev[i].k = "hs.batch"
              /\ ev[i].x = Cardinality({j \in calls : j <= i})
              /\ ev[i].x <= Len(rec.chunks)
              /\ ev[i].x > 1 => ev[i - 1] = Event("ret", "ok", ev[i].x - 1)
         /\ \A n \in DOMAIN done :
              /\ \E i \in calls : ev[i].x = done[n].k
              /\ done[n].inputs = rec.chunks[done[n].k]
              /\ \A m \in DOMAIN done : m < n => done[m].k < done[n].k
         /\ \A i \in At(rec, "ret") :
              /\ ev[i].k = "ok" => \E n \in DOMAIN done : done[n].k = ev[i].x
              /\ ev[i].k # "ok" =>
                   /\ Answered(rec, 500)
                   /\ i + 1 = Len(ev)
                   /\ \A j \in calls : ev[j].x <= ev[i].x
                   /\ \A k \in 1..(ev[i].x - 1) : \E n \in DOMAIN done : done[n].k = k
                   /\ \A n \in DOMAIN done : done[n].k <= ev[i].x
         /\ Answered(rec, 200) =>
              /\ Cardinality(calls) = Len(rec.chunks)
              /\ Len(done) = Len(rec.chunks)

\* 250 contacts whose second group failed: the first group is applied, the
\* third was never sent, the answer is 500.
C3_Witness ==
  \E r \in Reqs :
    /\ reqs[r].h \in Batches
    /\ Len(reqs[r].items) = 250
    /\ Answered(reqs[r], 500)
    /\ Cardinality(At(reqs[r], "call")) = 2
    /\ \E n \in DOMAIN AppliedBy(r) : AppliedBy(r)[n].k = 1

RECURSIVE Concat(_)
\* The groups laid end to end.
Concat(groups) == IF groups = <<>> THEN <<>> ELSE Head(groups) \o Concat(Tail(groups))

\* C4: a non-empty contacts array of n elements is cut into ceil(n/100)
\* groups that, laid end to end, are the array; every group but the last has
\* 100 elements and the last between 1 and 100; a successful response counts
\* the groups in 'chunks' and lists their responses in group order.
C4_ChunkPartition ==
  \A r \in Reqs :
    LET rec    == reqs[r]
        groups == rec.chunks
        n      == Len(rec.items)
    IN (rec.h \in Batches /\ rec.items # <<>>) =>
         /\ Len(groups) = (n + 99) \div 100
         /\ Concat(groups) = rec.items
         /\ \A k \in DOMAIN groups :
              /\ k < Len(groups) => Len(groups[k]) = 100
              /\ Len(groups[k]) \in 1..100
         /\ Answered(rec, 200) =>
              /\ rec.body.chunks = Len(groups)
              /\ rec.body.results = [k \in DOMAIN groups |-> BatchData(groups[k])]

\* 250 contacts answered with three groups of 100, 100 and 50.
C4_Witness ==
  \E r \in Reqs :
    /\ reqs[r].h \in Batches
    /\ Len(reqs[r].items) = 250
    /\ Answered(reqs[r], 200)
    /\ reqs[r].body.chunks = 3
    /\ Len(reqs[r].chunks[3]) = 50

\* C5: nothing ties a single upsert's search to its write: two records of one
\* portal hold the same email only when the second's creator had its search
\* return not-found before the first record was applied, and then each
\* creator has issued its own create and, where it was answered 200, was
\* answered 'created' with the id of its own record.
C5_UpsertNotAtomic ==
  \A portal \in DOMAIN hsContacts :
    \A i, j \in DOMAIN hsContacts[portal] :
      LET store == hsContacts[portal]
          a     == reqs[store[i].by]
          b     == reqs[store[j].by]
      IN (i < j /\ store[i].email = store[j].email /\ b.h \in Upserts) =>
           /\ b.seen < i
           /\ a.found = 0 /\ b.found = 0
           /\ CallsOf(a, "hs.create") # {} /\ CallsOf(b, "hs.create") # {}
           /\ Answered(a, 200) => a.body.status = "created" /\ a.body.id = i
           /\ Answered(b, 200) => b.body.status = "created" /\ b.body.id = j

\* Two concurrent requests for one email, both answered 'created', and two
\* records of that email in the portal.
C5_Witness ==
  \E r1, r2 \in Reqs :
    LET a == reqs[r1]
        b == reqs[r2]
        store == hsContacts[Portal(a.h)]
    IN /\ r1 # r2
       /\ a.h \in Upserts /\ b.h = a.h
       /\ a.email = b.email
       /\ Answered(a, 200) /\ a.body.status = "created"
       /\ Answered(b, 200) /\ b.body.status = "created"
       /\ a.body.id # b.body.id
       /\ Cardinality({n \in DOMAIN store : store[n].email = a.email}) = 2

\* C6: with a shared secret configured, a request that carries no matching
\* secret is answered 401 and has nothing normalized and no call issued for
\* it; with none configured, no request is answered 401.
C6_SharedSecretEnforced ==
  \A r \in Reqs :
    LET rec == reqs[r]
    IN rec.h # "none" =>
         /\ (Truthy(env.secret)
             /\ ~assertSharedSecret(env.secret, rec.hdr, rec.qry, Payload(rec))) =>
              /\ At(rec, "norm") = {} /\ At(rec, "call") = {}
              /\ rec.pc = "done" => rec.status = 401
         /\ ~Truthy(env.secret) => rec.status # 401

\* The last call return in a request's history.
LastReturn(rec) ==
  rec.ev[CHOOSE i \in At(rec, "ret") : \A j \in At(rec, "ret") : j <= i]

\* C11: an answered request whose last remote call succeeded is answered 200;
\* one whose call failed is answered 500 with a body that carries the remote
\* error payload when the remote sent one and the error message otherwise.
C11_OutcomeToStatus ==
  \A r \in Reqs :
    (reqs[r].pc = "done" /\ At(reqs[r], "ret") # {}) =>
      LET outcome == LastReturn(reqs[r]).k
      IN /\ outcome = "ok" => reqs[r].status = 200
         /\ outcome # "ok" =>
              /\ reqs[r].status = 500
              /\ reqs[r].body.status = "error"
              /\ reqs[r].body.detail = ErrorDetail(outcome)

\* C12: with the destination's credential not configured, no outbound call is
\* issued for a request, and the answer it gets is 500 (or the 400 or 401 of
\* a check that comes first).
C12_NoCallWithoutCredentials ==
  \A r \in Reqs :
    (reqs[r].h # "none" /\ ~env.creds) =>
      /\ At(reqs[r], "call") = {}
      /\ reqs[r].pc = "done" => reqs[r].status \in {400, 401, 500}

\* C15: a handler never waits for a log append: in the step in which it
\* requests one it goes on to its next step with the append pending; and the
\* completion of an append, written or failed, changes nothing of the
\* request but the state of that append, so the response is the same
\* whatever becomes of the log.
C15_LoggingNeverBlocks ==
  [][\A r \in Reqs :
       LET a == reqs[r]
           b == reqs'[r]
       IN /\ (Len(b.logs) = Len(a.logs) /\ b.logs # a.logs) => b = [a EXCEPT !.logs = b.logs]
          /\ Len(b.logs) > Len(a.logs) =>
               /\ \A i \in (Len(a.logs) + 1)..Len(b.logs) : b.logs[i] = "pending"
               /\ b.ev[Len(b.ev)].e # "log"
          /\ a.pc = "done" => (b.status = a.status /\ b.body = a.body)]_vars

\* A request answered 200 with one of its log appends failed and another
\* still pending.
C15_Witness ==
  \E r \in Reqs :
    /\ Answered(reqs[r], 200)
    /\ \E i, j \in DOMAIN reqs[r].logs :
         reqs[r].logs[i] = "failed" /\ reqs[r].logs[j] = "pending"

\* A CRM request that no check of its handler turned away.
PastChecks(rec) ==
  /\ rec.h \in CrmHandlers
  /\ rec.pc # "idle"
  /\ ~(rec.pc = "done" /\ At(rec, "ret") = {})

\* C16: a CRM request that passes its handler's checks has exactly one
\* outbound call issued for it, a contact create with no call before it; the
\* call returns once, and on a failure or a timeout the same request is
\* answered 500 with no call issued again.
C16_SingleCreateNoRetry ==
  \A r \in Reqs :
    LET rec   == reqs[r]
        calls == At(rec, "call")
        rets  == At(rec, "ret")
    IN rec.h \in CrmHandlers =>
         /\ \A i \in calls : rec.ev[i].k = "ghl.create"
         /\ Cardinality(calls) <= 1
         /\ PastChecks(rec) <=> Cardinality(calls) = 1
         /\ Cardinality(rets) <= 1
         /\ \A i \in rets :
              /\ \E j \in calls : j < i
              /\ rec.pc = "done"
              /\ rec.status = IF rec.ev[i].k = "ok" THEN 200 ELSE 500
              /\ \A j \in calls : j < i
         /\ Cardinality({n \in DOMAIN ghlCreated : ghlCreated[n] = r}) <= 1

\* A CRM request whose create call timed out after the CRM had applied it:
\* answered 500, one call issued, none after the timeout.
C16_Witness ==
  \E r \in Reqs :
    /\ reqs[r].h \in CrmHandlers
    /\ Answered(reqs[r], 500)
    /\ \E i \in At(reqs[r], "ret") : reqs[r].ev[i].k = "timeout"
    /\ Cardinality(At(reqs[r], "call")) = 1
    /\ \E n \in DOMAIN ghlCreated : ghlCreated[n] = r

\* C17: a single upsert issues at most one search and at most one write; a
\* call that fails is the request's last: the answer is 500 at once, and
\* after a failed search neither create nor update is issued.
C17_NoRetryFailuresStop ==
  \A r \in Reqs :
    LET rec    == reqs[r]
        ev     == rec.ev
        writes == CallsOf(rec, "hs.create") \cup CallsOf(rec, "hs.update")
    IN rec.h \in Upserts =>
         /\ Cardinality(CallsOf(rec, "hs.search")) <= 1
         /\ Cardinality(writes) <= 1
         /\ \A i \in At(rec, "ret") :
              ev[i].k # "ok" =>
                /\ Answered(rec, 500)
                /\ i + 1 = Len(ev) /\ ev[i + 1].e = "resp"
                /\ \A j \in At(rec, "call") : j < i
                /\ i - 1 \in CallsOf(rec, "hs.search") => writes = {}

\* One request whose search failed, answered 500 with no write issued, and
\* another whose create timed out, answered 500 after one search and one
\* create.
C17_Witness ==
  \E r1, r2 \in Reqs :
    /\ reqs[r1].h \in Upserts /\ reqs[r2].h \in Upserts
    /\ Answered(reqs[r1], 500) /\ Len(reqs[r1].ev) > 2
    /\ reqs[r1].ev[Len(reqs[r1].ev) - 2] = Event("call", "hs.search", 0)
    /\ CallsOf(reqs[r1], "hs.create") \cup CallsOf(reqs[r1], "hs.update") = {}
    /\ Answered(reqs[r2], 500) /\ Len(reqs[r2].ev) > 2
    /\ reqs[r2].ev[Len(reqs[r2].ev) - 2] = Event("call", "hs.create", 0)
    /\ reqs[r2].ev[Len(reqs[r2].ev) - 1] = Event("ret", "timeout", 0)

\* C18: every contact sent to the marketing platform carries a non-empty
\* email: a single request that issued a create or an update has an email,
\* and every element of every batch group a call was issued for has one.
C18_EveryDeliveryHasEmail ==
  \A r \in Reqs :
    LET rec == reqs[r]
    IN /\ (rec.h \in Upserts \cup {"hs_create"} /\ At(rec, "call") # {}) =>
            Truthy(rec.email)
       /\ rec.h \in Batches =>
            \A i \in At(rec, "call") :
              LET sent == inputs(rec, rec.chunks[rec.ev[i].x])
              IN \A n \in DOMAIN sent : Truthy(sent[n].properties.email)

\* C19: with a shared secret configured, a request that carries the
\* configured secret in the header, in the query string or in the body is
\* not turned away as unauthorized, whatever the other two channels hold.
C19_AnyChannelAccepted ==
  \A r \in Reqs :
    LET rec == reqs[r]
    IN (/\ rec.h # "none"
        /\ Truthy(env.secret)
        /\ \/ rec.hdr = env.secret
           \/ rec.qry = env.secret
           \/ Payload(rec)["secret"] = env.secret) =>
         rec.status # 401

\* The tags buildContactPayload discovers in its input: the inbound array or
\* comma-separated string, the value under the pattern-matched key, and the
\* default tags.
Discovered(in) ==
  LET found == ensureArrayTags(pick(in.payload, <<"tags", "contact.tags">>))
      keys  == IF in.usePattern THEN TagsFromKeys(in.payload, PatternKeys) ELSE <<>>
      all   == found \o keys \o in.defaultTags
  IN {all[i] : i \in DOMAIN all}

\* C20: the tag list buildContactPayload returns holds no string twice and
\* no empty string, and holds every non-empty tag it discovered, so that tags
\* differing only in case are both kept.
C20_TagsDistinctNonEmpty ==
  (nout.fn \in {"buildContactPayload", "buildContactPayload twice"}
   /\ nout.contact.tags # Absent) =>
    LET tags == nout.contact.tags.a
    IN /\ \A i, j \in DOMAIN tags : i # j => tags[i] # tags[j]
       /\ \A i \in DOMAIN tags : tags[i] # <<>>
       /\ nout.fn = "buildContactPayload" =>
            {tags[i] : i \in DOMAIN tags} = Discovered(nin) \ {<<>>}

\* An input that names "a" twice, "A" once and an empty tag, answered with
\* the two tags "A" and "a".
C20_Witness ==
  /\ nout.fn = "buildContactPayload"
  /\ nin.payload["tags"] = Str(<<"A", ",", " ", "a", ",", ",", "a">>)
  /\ nin.defaultTags = <<>>
  /\ nout.contact.tags = Arr(<<<<"A">>, <<"a">>>>)

\* C21: the baseline marketing normalizer takes the email from the top-level
\* key alone; the OperatingFrame normalizer takes the top-level email when
\* it is there and not empty, and the email under contact whenever the
\* top-level email is absent or empty.
C21_EmailResolution ==
  LET top    == nin.payload["email"]
      nested == Opt(nin.payload, "contact.email")
      empty  == Nullish(top) \/ top = Str(<<>>)
  IN /\ nout.fn = "normalizeHubSpotContact" => nout.contact.email = top
     /\ nout.fn = "normalizeHubSpotContactOperatingFrame" =>
          /\ ~empty => nout.contact.email = top
          /\ (empty /\ Truthy(nested)) => nout.contact.email = nested

\* C22: a request is answered exactly once on every path through its
\* handler: it never has two responses, it is done just when it has one, the
\* response is the last step of its history, and, every outbound call
\* returning or timing out in the end, a request that arrived is answered.
C22_ExactlyOneResponse ==
  /\ [](\A r \in Reqs :
          LET rec == reqs[r]
          IN /\ Cardinality(At(rec, "resp")) <= 1
             /\ rec.pc = "done" <=> At(rec, "resp") # {}
             /\ At(rec, "resp") \subseteq {Len(rec.ev)})
  /\ \A r \in Reqs : (reqs[r].pc # "idle") ~> (reqs[r].pc = "done")

\* An OperatingFrame batch whose second call timed out, answered once, 500.
C22_Witness ==
  \E r \in Reqs :
    /\ reqs[r].h = "hs_of_batch"
    /\ Answered(reqs[r], 500)
    /\ Event("ret", "timeout", 2) \in {reqs[r].ev[i] : i \in DOMAIN reqs[r].ev}
    /\ Cardinality(At(reqs[r], "resp")) = 1

\* C23: buildContactPayload leaves the inbound payload as it was: after the
\* call every key of the payload, an inbound tags array with its contents and
\* their order included, holds what it held before.
C23_PayloadUnchanged ==
  nout.fn = "buildContactPayload" => nout.payload = nin.payload

\* C24: when the call for group k > 1 of a batch fails, the 500 response
\* holds the error detail of that call and nothing else: the k - 1 responses
\* collected so far are not in it, while groups 1..k-1 stay applied on the
\* platform.
C24_FailureDropsCollectedResults ==
  \A r \in Reqs :
    LET rec == reqs[r]
    IN (rec.h \in Batches /\ Answered(rec, 500) /\ At(rec, "ret") # {}) =>
         LET failed == LastReturn(rec)
             k      == failed.x
         IN /\ failed.k # "ok"
            /\ rec.body = ErrorBody(ErrorDetail(failed.k))
            /\ rec.body.results = <<>>
            /\ Len(rec.results) = k - 1
            /\ \A j \in 1..(k - 1) :
                 /\ rec.results[j] = BatchData(rec.chunks[j])
                 /\ \E n \in DOMAIN AppliedBy(r) : AppliedBy(r)[n].k = j

\* 250 contacts whose third group failed with a remote error: two responses
\* were collected and two groups applied, and the answer names the error only.
C24_Witness ==
  \E r \in Reqs :
    /\ reqs[r].h \in Batches
    /\ Len(reqs[r].items) = 250
    /\ Answered(reqs[r], 500)
    /\ Len(reqs[r].results) = 2
    /\ reqs[r].body.detail = "remote"
    /\ reqs[r].body.results = <<>>
    /\ Cardinality({n \in DOMAIN AppliedBy(r) : AppliedBy(r)[n].k \in {1, 2}}) = 2

\* C25: a secret-checking CRM handler authorizes, then requests the inbound
\* log entry, then normalizes and validates, then issues the call, then
\* requests the outcome log entry and answers: a request answered 401 has no
\* log entry, normalization or call; every other request starts with the
\* inbound entry, also when it is answered 400; a response or error entry
\* comes right after the return of the call, whose outcome it names.
C25_StepOrder ==
  \A r \in Reqs :
    LET rec == reqs[r]
        ev  == rec.ev
        n   == Len(ev)
    IN rec.h = "crm_secret" =>
         /\ Answered(rec, 401) => ev = <<Event("resp", "error", 401)>>
         /\ ~Answered(rec, 401) =>
              /\ n >= 2
              /\ ev[1] = Event("log", "inbound", 0)
              /\ ev[2] = Event("norm", "buildContactPayload", 0)
              /\ Answered(rec, 400) => n = 3
              /\ n >= 3 /\ ~Answered(rec, 400) => ev[3] = Event("call", "ghl.create", 0)
              /\ n >= 4 => ev[4].e = "ret"
         /\ \A i \in At(rec, "log") :
              /\ i = 1 <=> ev[i].k = "inbound"
              /\ i > 1 =>
                   /\ i = 5 /\ ev[4].e = "ret"
                   /\ ev[i].k = IF ev[4].k = "ok" THEN "response" ELSE "error"
                   /\ n > i => ev[i + 1].e = "resp"
         /\ rec.pc = "done" /\ At(rec, "ret") # {} => n = 6 /\ ev[5].e = "log"

\* With a secret configured, an authorized request whose call timed out:
\* inbound entry, normalization, call, return, error entry, answer 500.
C25_Witness ==
  \E r \in Reqs :
    /\ reqs[r].h = "crm_secret"
    /\ Truthy(env.secret)
    /\ Answered(reqs[r], 500)
    /\ Len(reqs[r].ev) = 6
    /\ reqs[r].ev[1] = Event("log", "inbound", 0)
    /\ reqs[r].ev[4] = Event("ret", "timeout", 0)
    /\ reqs[r].ev[5] = Event("log", "error", 0)

====
